---------------------------- MODULE Spec2Model ----------------------------
(***************************************************************************)
(* State-machine model of dashboard.py: a Streamlit page that loads a      *)
(* spreadsheet through a 60-second cache, keeps the table in the session,  *)
(* computes four tiles from it and reloads it from a file-watcher thread.  *)
(*                                                                         *)
(* A table is [cols, rows]: cols is the set of columns the sheet has, rows *)
(* a sequence of records.  Column names are abbreviated:                   *)
(*   Work    "Minutes of Total Video Work Done (min)"                      *)
(*   Words   "Words Translated (nos.)"                                     *)
(*   Paid    "Minutes of Video Localized (min) - Paid"                     *)
(*   Date    "Date"                                                        *)
(*   Clients "Total Number of Clients (nos.) - Platform Users"             *)
(* A Date cell is [k, d, t]: k = "ts" a timestamp on day d with (t = 1) or *)
(* without (t = 0) a time of day, "bad" a string that is no date, "nat" a  *)
(* missing value, "date" the datetime.date object the calculators store.   *)
(*                                                                         *)
(* Library behaviour the model relies on: st.cache_data hands every caller *)
(* its own copy of the cached value, so the session's DataFrame is never   *)
(* the cache's; assigning st.session_state['data'] rebinds the name to a   *)
(* new object and leaves the old object untouched; pd.to_datetime with     *)
(* errors='coerce' parses the column element by element.  The calendar day *)
(* does not change during a behaviour, so the three datetime.now() calls   *)
(* of one script run agree.                                                *)
(***************************************************************************)
EXTENDS Integers, Sequences, FiniteSets, TLC

VARIABLES
    file,        \* the spreadsheet on disk: [readable, tbl]
    cache,       \* st.cache_data slot of load_data: [valid, tbl]
    cacheAge,    \* seconds since the cache slot was filled (saturates at TTL)
    today,       \* datetime.now().date(), a day number
    sessHas,     \* 'data' in st.session_state
    sessTbl,     \* the DataFrame object st.session_state['data'] refers to
    observers,   \* watchdog observers started by watch_file (saturates)
    pending,     \* on_modified events for the tracked file not yet handled
    pc,          \* position of the script run of main()
    dataTbl,     \* the DataFrame object the local `data` refers to
    aliased,     \* `data` and st.session_state['data'] are the same object
    locals,      \* metrics, today_minutes, yesterday_minutes, clients_today, client_yesterday
    errors,      \* st.error messages of the current script run
    shown,       \* what the finished run displayed: [tiles, view]
    data0,       \* history: value of the object `data` was bound to at line 86
    run0,        \* history: [expired, undelivered, fileSame] of the current run
    lastLoad,    \* history: the last call of load_data
    reloads,     \* history: the reloads since the file's contents last changed
    undelivered  \* history: the file changed and no reload has run since

vars == << file, cache, cacheAge, today, sessHas, sessTbl, observers, pending,
           pc, dataTbl, aliased, locals, errors, shown, data0, run0,
           lastLoad, reloads, undelivered >>

-----------------------------------------------------------------------------
(* Bounds and program constants *)

MaxRows == 2
MaxDay == 3
TickStep == 30
MaxObservers == 2
MaxPending == 2
TTL == 60

Min(a, b) == IF a < b THEN a ELSE b

Columns == {"Work", "Words", "Paid", "Date", "Clients"}

Days == 1..MaxDay
Ts(d, t) == [k |-> "ts", d |-> d, t |-> t]
BadStr == [k |-> "bad", d |-> 0, t |-> 0]
NaT == [k |-> "nat", d |-> 0, t |-> 0]
DateObj(d) == [k |-> "date", d |-> d, t |-> 0]

\* the Date cells a sheet holds: a timestamp of any day with or without a
\* time of day, a string that is no date, an empty cell
RawDateCells == {Ts(d, t) : d \in Days, t \in {0, 1}} \cup {BadStr, NaT}

MkRow(date, paid, clients, work, words) ==
    [Date |-> date, Paid |-> paid, Clients |-> clients, Work |-> work, Words |-> words]

MkTable(cols, rows) == [cols |-> cols, rows |-> rows]

\* pd.DataFrame(): no columns, no rows
EmptyDF == MkTable({}, << >>)

-----------------------------------------------------------------------------
(* pandas helpers *)

RECURSIVE SumCol(_, _)
\* Series.sum() of column col over rows; 0 for no rows
SumCol(rows, col) ==
    IF rows = << >> THEN 0 ELSE Head(rows)[col] + SumCol(Tail(rows), col)

\* round(x, 2) of the quotient num/den, in hundredths (ties to even)
RoundHundredths(num, den) ==
    LET q == (100 * num) \div den
        r == (100 * num) % den
    IN  IF 2 * r > den THEN q + 1
        ELSE IF 2 * r = den /\ q % 2 = 1 THEN q + 1
        ELSE q

\* round(Series.mean(), 2): NaN for no rows, else hundredths
MeanRounded(rows, col) ==
    IF rows = << >> THEN [nan |-> TRUE, h |-> 0]
    ELSE [nan |-> FALSE, h |-> RoundHundredths(SumCol(rows, col), Len(rows))]

Pad3(n) ==
    IF n < 10 THEN "00" \o ToString(n)
    ELSE IF n < 100 THEN "0" \o ToString(n)
    ELSE ToString(n)

RECURSIVE FormatThousands(_)
\* f"{n:,}" for n >= 0
FormatThousands(n) ==
    IF n < 1000 THEN ToString(n)
    ELSE FormatThousands(n \div 1000) \o "," \o Pad3(n % 1000)

\* one element of pd.to_datetime(..., errors='coerce').dt.date
ToDate(cell) ==
    IF cell.k \in {"ts", "date"} THEN DateObj(cell.d) ELSE NaT

RECURSIVE CoerceRows(_)
\* pd.to_datetime(df['Date'], errors='coerce').dt.date, row by row
CoerceRows(rows) ==
    IF rows = << >> THEN << >>
    ELSE << [Head(rows) EXCEPT !.Date = ToDate(Head(rows).Date)] >>
         \o CoerceRows(Tail(rows))

\* df['Date'] = pd.to_datetime(df['Date'], errors='coerce').dt.date, in place
CoerceDates(df) == MkTable(df.cols, CoerceRows(df.rows))

\* the mask as it would be had missing dates been filled with the target date
DateMask_fillna(cell, date) == cell = DateObj(date) \/ cell = NaT

\* one element of the mask df['Date'] == date
DateMask(cell, date) == cell = DateObj(date)

\* df[df['Date'] == date][col].sum()
SumOnDate(df, col, date) ==
    SumCol(SelectSeq(df.rows, LAMBDA r : DateMask(r.Date, date)), col)

Abs(x) == IF x < 0 THEN -x ELSE x

-----------------------------------------------------------------------------
(* The calculators.  A Python exception that leaves a function is the      *)
(* field raised; a caught one is the field error (st.error was called).    *)

\* calculate_metrics(df): no try/except, a missing column raises KeyError
calculate_metrics(df) ==
    IF "Work" \notin df.cols \/ "Words" \notin df.cols
    THEN [raised |-> TRUE, avg |-> [nan |-> FALSE, h |-> 0], words |-> ""]
    ELSE [raised |-> FALSE,
          avg    |-> MeanRounded(df.rows, "Work"),
          words  |-> FormatThousands(SumCol(df.rows, "Words"))]

\* get_daily_comparison(df) called on day now; df is the object after the call
get_daily_comparison(df, now) ==
    IF "Date" \notin df.cols
    THEN [df |-> df, today_minutes |-> 0, yesterday_minutes |-> 0, error |-> TRUE]
    ELSE IF "Paid" \notin df.cols
    THEN [df |-> CoerceDates(df), today_minutes |-> 0, yesterday_minutes |-> 0,
          error |-> TRUE]
    ELSE [df |-> CoerceDates(df),
          today_minutes     |-> SumOnDate(CoerceDates(df), "Paid", now),
          yesterday_minutes |-> SumOnDate(CoerceDates(df), "Paid", now - 1),
          error |-> FALSE]

\* get_clients_on_date(df, date); df is the object after the call
get_clients_on_date(df, date) ==
    IF "Date" \notin df.cols
    THEN [df |-> df, total_clients |-> 0, error |-> TRUE]
    ELSE IF "Clients" \notin df.cols
    THEN [df |-> CoerceDates(df), total_clients |-> 0, error |-> TRUE]
    ELSE [df |-> CoerceDates(df),
          total_clients |-> SumOnDate(CoerceDates(df), "Clients", date),
          error |-> FALSE]

\* the arrow as it would be with >= for >
Arrow_ge(today_minutes, yesterday_minutes) ==
    IF today_minutes >= yesterday_minutes THEN "up" ELSE "down"

\* the arrow chosen by main()
Arrow(today_minutes, yesterday_minutes) ==
    IF today_minutes > yesterday_minutes THEN "up" ELSE "down"

\* the four st.metric tiles of main()
Tiles(avg, words, today_minutes, yesterday_minutes, client_yesterday) ==
    [avg     |-> avg,
     words   |-> words,
     paid    |-> ToString(yesterday_minutes) \o " min",
     arrow   |-> Arrow(today_minutes, yesterday_minutes),
     delta   |-> Abs(today_minutes - yesterday_minutes),
     clients |-> client_yesterday]

-----------------------------------------------------------------------------
(* The loader and its cache *)

\* pd.read_excel(EXCEL_FILE, sheet_name=0)
read_excel(f) == [raised |-> ~f.readable, df |-> f.tbl]

\* the body of load_data as it would be without its try / except
load_data_body_noexcept(f) ==
    [raised |-> read_excel(f).raised, ret |-> read_excel(f).df, error |-> FALSE]

\* the body of load_data: try / except Exception
load_data_body(f) ==
    IF read_excel(f).raised
    THEN [raised |-> FALSE, ret |-> EmptyDF, error |-> TRUE]
    ELSE [raised |-> FALSE, ret |-> read_excel(f).df, error |-> FALSE]

\* @st.cache_data(ttl=60): the slot answers while it is younger than TTL
CacheHit(c, age) == c.valid /\ age < TTL

\* load_data() through its cache; the caller gets a copy of the cached value
load_data(c, age, f) ==
    IF CacheHit(c, age)
    THEN [raised |-> FALSE, ret |-> c.tbl, error |-> FALSE, read |-> FALSE,
          cache |-> c, age |-> age]
    ELSE [raised |-> load_data_body(f).raised,
          ret    |-> load_data_body(f).ret,
          error  |-> load_data_body(f).error,
          read   |-> TRUE,
          cache  |-> IF load_data_body(f).raised THEN c
                     ELSE [valid |-> TRUE, tbl |-> load_data_body(f).ret],
          age    |-> IF load_data_body(f).raised THEN age ELSE 0]

\* what a read of file f gives a caller that substitutes the empty table
FileTable(f) == IF f.readable THEN f.tbl ELSE EmptyDF

LoadRecord(by, f, r) ==
    [called |-> TRUE, by |-> by, read |-> r.read, file |-> f, ret |-> r.ret,
     raised |-> r.raised, error |-> r.error]

-----------------------------------------------------------------------------
(* Inputs *)

FullTable(rows) == MkTable(Columns, rows)

\* rows of a well-formed sheet; Work and Words are the same in every row
CalcRows == {MkRow(c, p, n, 15, 600) : c \in RawDateCells, p \in {1, 2}, n \in {3, 4}}

RECURSIVE SeqsUpTo(_, _)
\* the sequences over S of length at most n
SeqsUpTo(S, n) ==
    IF n = 0 THEN {<< >>}
    ELSE SeqsUpTo(S, n - 1)
         \cup {Append(q, x) : q \in {p \in SeqsUpTo(S, n - 1) : Len(p) = n - 1}, x \in S}

\* every well-formed sheet of at most MaxRows rows
CalcTables == {FullTable(rows) : rows \in SeqsUpTo(CalcRows, MaxRows)}

\* the sheets the file takes in the system specification
SysTables ==
    { FullTable(<< MkRow(Ts(MaxDay, 1), 2, 3, 15, 600) >>),
      FullTable(<< MkRow(Ts(MaxDay - 1, 0), 1, 4, 15, 600),
                   MkRow(BadStr, 2, 3, 15, 600) >>),
      MkTable(Columns \ {"Paid"}, << MkRow(Ts(MaxDay, 0), 0, 4, 15, 600) >>) }

Unreadable == [readable |-> FALSE, tbl |-> EmptyDF]
Readable(t) == [readable |-> TRUE, tbl |-> t]

FileStates == {Unreadable} \cup {Readable(t) : t \in SysTables}

NoLocals ==
    [avg |-> [nan |-> FALSE, h |-> 0], words |-> "", today_minutes |-> 0,
     yesterday_minutes |-> 0, clients_today |-> 0, client_yesterday |-> 0]

NoShown ==
    [tiles |-> Tiles(NoLocals.avg, NoLocals.words, 0, 0, 0), view |-> EmptyDF]

NoLoad ==
    [called |-> FALSE, by |-> "", read |-> FALSE, file |-> Unreadable,
     ret |-> EmptyDF, raised |-> FALSE, error |-> FALSE]

NoReloads == [n |-> 0, first |-> EmptyDF, same |-> TRUE]

NoRun == [expired |-> FALSE, undelivered |-> FALSE, fileSame |-> TRUE]

-----------------------------------------------------------------------------
(* Initial states *)

\* the process has started and main() has not run yet
Init ==
    /\ file \in FileStates
    /\ cache = [valid |-> FALSE, tbl |-> EmptyDF]
    /\ cacheAge = 0
    /\ today = MaxDay
    /\ sessHas = FALSE
    /\ sessTbl = EmptyDF
    /\ observers = 0
    /\ pending = 0
    /\ pc = "idle"
    /\ dataTbl = EmptyDF
    /\ aliased = FALSE
    /\ locals = NoLocals
    /\ errors = {}
    /\ shown = NoShown
    /\ data0 = EmptyDF
    /\ run0 = NoRun
    /\ lastLoad = NoLoad
    /\ reloads = NoReloads
    /\ undelivered = FALSE

-----------------------------------------------------------------------------
(* main(): one script run, line by line *)

\* main() as it would be reading st.session_state['data'] at every use
LocalData_reread == sessTbl

\* the table the local name `data` gives the calculators (bound at line 86)
LocalData == dataTbl

\* lines 74-84: page setup, first load into the session, watch_file(reload_data)
Main_Setup ==
    /\ pc \in {"idle", "done", "raised"}
    /\ LET r == load_data(cache, cacheAge, file)
           loads == ~sessHas
           stores == ~sessHas /\ ~r.raised
       IN  /\ cache' = IF loads THEN r.cache ELSE cache
           /\ cacheAge' = IF loads THEN r.age ELSE cacheAge
           /\ lastLoad' = IF loads THEN LoadRecord("main", file, r) ELSE lastLoad
           /\ sessHas' = (sessHas \/ stores)
           /\ sessTbl' = IF stores THEN r.ret ELSE sessTbl
           /\ undelivered' = IF stores THEN FALSE ELSE undelivered
           /\ errors' = IF loads /\ r.error THEN {"load"} ELSE {}
           /\ pc' = IF loads /\ r.raised THEN "raised" ELSE "L86"
           /\ observers' = IF loads /\ r.raised THEN observers
                           ELSE Min(observers + 1, MaxObservers)
           /\ run0' = [expired |-> ~CacheHit(cache, cacheAge),
                       undelivered |-> undelivered, fileSame |-> TRUE]
    /\ dataTbl' = EmptyDF
    /\ aliased' = FALSE
    /\ locals' = NoLocals
    /\ shown' = NoShown
    /\ data0' = EmptyDF
    /\ UNCHANGED << file, today, pending, reloads >>

\* line 86: data = st.session_state['data']
Main_ReadSession ==
    /\ pc = "L86"
    /\ dataTbl' = sessTbl
    /\ aliased' = TRUE
    /\ data0' = sessTbl
    /\ pc' = "L87"
    /\ UNCHANGED << file, cache, cacheAge, today, sessHas, sessTbl, observers,
                    pending, locals, errors, shown, run0, lastLoad,
                    reloads, undelivered >>

\* line 87: metrics = calculate_metrics(data); an exception ends the run
Main_Metrics ==
    /\ pc = "L87"
    /\ LET m == calculate_metrics(LocalData)
       IN  /\ pc' = IF m.raised THEN "raised" ELSE "L89"
           /\ locals' = IF m.raised THEN locals
                        ELSE [locals EXCEPT !.avg = m.avg, !.words = m.words]
    /\ UNCHANGED << file, cache, cacheAge, today, sessHas, sessTbl, observers,
                    pending, dataTbl, aliased, errors, shown, data0, run0,
                    lastLoad, reloads, undelivered >>

\* line 89: today_minutes, yesterday_minutes = get_daily_comparison(data)
Main_Daily ==
    /\ pc = "L89"
    /\ LET r == get_daily_comparison(LocalData, today)
       IN  /\ locals' = [locals EXCEPT !.today_minutes = r.today_minutes,
                                       !.yesterday_minutes = r.yesterday_minutes]
           /\ errors' = IF r.error THEN errors \cup {"daily"} ELSE errors
           /\ dataTbl' = r.df
           /\ sessTbl' = IF aliased THEN r.df ELSE sessTbl
    /\ pc' = "L90"
    /\ UNCHANGED << file, cache, cacheAge, today, sessHas, observers, pending,
                    aliased, shown, data0, run0, lastLoad, reloads,
                    undelivered >>

\* line 90: clients_today = get_clients_on_date(data, datetime.now().date())
Main_ClientsToday ==
    /\ pc = "L90"
    /\ LET r == get_clients_on_date(LocalData, today)
       IN  /\ locals' = [locals EXCEPT !.clients_today = r.total_clients]
           /\ errors' = IF r.error THEN errors \cup {"clients"} ELSE errors
           /\ dataTbl' = r.df
           /\ sessTbl' = IF aliased THEN r.df ELSE sessTbl
    /\ pc' = "L91"
    /\ UNCHANGED << file, cache, cacheAge, today, sessHas, observers, pending,
                    aliased, shown, data0, run0, lastLoad, reloads,
                    undelivered >>

\* line 91: client_yesterday = get_clients_on_date(data, today - 1 day)
Main_ClientsYesterday ==
    /\ pc = "L91"
    /\ LET r == get_clients_on_date(LocalData, today - 1)
       IN  /\ locals' = [locals EXCEPT !.client_yesterday = r.total_clients]
           /\ errors' = IF r.error THEN errors \cup {"clients"} ELSE errors
           /\ dataTbl' = r.df
           /\ sessTbl' = IF aliased THEN r.df ELSE sessTbl
    /\ pc' = "L93"
    /\ UNCHANGED << file, cache, cacheAge, today, sessHas, observers, pending,
                    aliased, shown, data0, run0, lastLoad, reloads,
                    undelivered >>

\* lines 93-110: the arrow, the four tiles, st.dataframe(data)
Main_Display ==
    /\ pc = "L93"
    /\ shown' = [tiles |-> Tiles(locals.avg, locals.words, locals.today_minutes,
                                 locals.yesterday_minutes, locals.client_yesterday),
                 view  |-> LocalData]
    /\ pc' = "done"
    /\ UNCHANGED << file, cache, cacheAge, today, sessHas, sessTbl, observers,
                    pending, dataTbl, aliased, locals, errors, data0, run0,
                    lastLoad, reloads, undelivered >>

-----------------------------------------------------------------------------
(* The watcher thread and the environment *)

\* on_modified for the tracked file -> reload_data(): the session gets
\* load_data(); st.experimental_rerun() lets the next script run start
OnModified_Reload ==
    /\ pending > 0
    /\ pending' = pending - 1
    /\ LET r == load_data(cache, cacheAge, file)
       IN  /\ cache' = r.cache
           /\ cacheAge' = r.age
           /\ lastLoad' = LoadRecord("reload", file, r)
           /\ sessHas' = (sessHas \/ ~r.raised)
           /\ sessTbl' = IF r.raised THEN sessTbl ELSE r.ret
           /\ aliased' = IF r.raised THEN aliased ELSE FALSE
           /\ reloads' = IF r.raised THEN reloads
                         ELSE [n     |-> Min(reloads.n + 1, 2),
                               first |-> IF reloads.n = 0 THEN r.ret ELSE reloads.first,
                               same  |-> IF reloads.n = 0 THEN TRUE
                                         ELSE reloads.same /\ r.ret = reloads.first]
    /\ undelivered' = FALSE
    /\ UNCHANGED << file, today, observers, pc, dataTbl, locals, errors, shown,
                    data0, run0 >>

\* on_modified for another file of the directory: the path test fails
OnModified_OtherFile ==
    /\ observers > 0
    /\ UNCHANGED vars

\* the file is written (n = 1: modified in place, every observer gets an
\* on_modified event; n = 0: deleted or replaced by rename, no on_modified)
WriteFile(f, n) ==
    /\ f # file \/ n = 1
    /\ file' = f
    /\ pending' = Min(pending + n * observers, MaxPending)
    /\ reloads' = IF f # file THEN NoReloads ELSE reloads
    /\ undelivered' = IF f # file /\ sessHas THEN TRUE ELSE undelivered
    /\ run0' = IF f # file THEN [run0 EXCEPT !.fileSame = FALSE] ELSE run0
    /\ UNCHANGED << cache, cacheAge, today, sessHas, sessTbl, observers, pc,
                    dataTbl, aliased, locals, errors, shown, data0, lastLoad >>

\* time passes
Tick ==
    /\ cacheAge < TTL
    /\ cacheAge' = Min(cacheAge + TickStep, TTL)
    /\ UNCHANGED << file, cache, today, sessHas, sessTbl, observers, pending,
                    pc, dataTbl, aliased, locals, errors, shown, data0, run0,
                    lastLoad, reloads, undelivered >>

MainNext ==
    \/ Main_Setup
    \/ Main_ReadSession
    \/ Main_Metrics
    \/ Main_Daily
    \/ Main_ClientsToday
    \/ Main_ClientsYesterday
    \/ Main_Display

Next ==
    \/ MainNext
    \/ OnModified_Reload
    \/ OnModified_OtherFile
    \/ \E f \in FileStates, n \in {0, 1} : WriteFile(f, n)
    \/ Tick

Spec == Init /\ [][Next]_vars

-----------------------------------------------------------------------------
(* The calculators on every well-formed sheet: the session holds a sheet   *)
(* the watcher has just reloaded, and main() runs on it.                   *)

InitCalc ==
    /\ \E t \in CalcTables :
          /\ file = Readable(t)
          /\ cache = [valid |-> TRUE, tbl |-> t]
          /\ sessTbl = t
          /\ lastLoad = [called |-> TRUE, by |-> "reload", read |-> TRUE,
                         file |-> Readable(t), ret |-> t, raised |-> FALSE,
                         error |-> FALSE]
          /\ reloads = [n |-> 1, first |-> t, same |-> TRUE]
    /\ cacheAge = 0
    /\ today = MaxDay
    /\ sessHas = TRUE
    /\ observers = 1
    /\ pending = 0
    /\ pc = "done"
    /\ dataTbl = EmptyDF
    /\ aliased = FALSE
    /\ locals = NoLocals
    /\ errors = {}
    /\ shown = NoShown
    /\ data0 = EmptyDF
    /\ run0 = NoRun
    /\ undelivered = FALSE

CalcSpec == InitCalc /\ [][MainNext]_vars

-----------------------------------------------------------------------------
(* Properties *)

AfterMetrics == {"L89", "L90", "L91", "L93", "done"}
AfterDaily == {"L90", "L91", "L93", "done"}
AfterClientsToday == {"L91", "L93", "done"}
AfterClientsYesterday == {"L93", "done"}

ZeroAvg == [nan |-> FALSE, h |-> 0]
ZeroTiles == Tiles(ZeroAvg, "0", 0, 0, 0)

\* what one run of main() on day `day` displays when every step works on table t
RenderOf(t, day) ==
    LET m  == calculate_metrics(t)
        dc == get_daily_comparison(t, day)
        c1 == get_clients_on_date(dc.df, day)
        c2 == get_clients_on_date(c1.df, day - 1)
    IN  [raised |-> m.raised,
         tiles  |-> Tiles(m.avg, m.words, dc.today_minutes, dc.yesterday_minutes,
                          c2.total_clients),
         view   |-> c2.df]

\* the day a raw or stored Date cell parses to; 0 when it is no date
ParsedDay(cell) == IF cell.k \in {"ts", "date"} THEN cell.d ELSE 0

RECURSIVE RawSum(_, _, _)
\* the sum of column col over exactly the rows whose parsed date is day
RawSum(rows, col, day) ==
    IF rows = << >> THEN 0
    ELSE (IF ParsedDay(Head(rows).Date) = day THEN Head(rows)[col] ELSE 0)
         + RawSum(Tail(rows), col, day)

HasUndatedRow(rows) == \E i \in 1..Len(rows) : ParsedDay(rows[i].Date) = 0

\* C1: a script run never ends by an exception, and a run on the column-less
\* empty table shows all four tiles as 0.
C1_RenderNeverFails ==
    /\ pc # "raised"
    /\ (pc = "done" /\ data0.cols = {}) => shown.tiles = ZeroTiles

\* C2: after a reload triggered by a modification event, the table the
\* reload stored equals the file's contents at that moment, however young
\* the cache slot was.
C2_ReloadStoresFileContents ==
    (lastLoad.called /\ lastLoad.by = "reload")
        => lastLoad.ret = FileTable(lastLoad.file)

\* C3: a run that started with the cache slot expired, after the file
\* changed with no modification event handled since, shows the tiles of the
\* file's new contents.
C3_ExpiryRefreshesRender ==
    (/\ pc = "done"
     /\ run0.expired /\ run0.undelivered /\ run0.fileSame /\ undelivered
     /\ ~RenderOf(FileTable(file), today).raised)
        => shown.tiles = RenderOf(FileTable(file), today).tiles

\* C4: on a table with the required columns and zero rows calculate_metrics
\* returns 0 for the average work duration and 0 for the words translated.
C4_ZeroRowsGiveZero ==
    (/\ pc \in AfterMetrics
     /\ data0.rows = << >>
     /\ {"Work", "Words"} \subseteq data0.cols)
        => (locals.avg = ZeroAvg /\ locals.words = "0")

\* C5: load_data never raises; when it reads the file, a failed read is
\* reported and gives the empty table, a successful read gives the table read.
C5_LoadNeverPropagates ==
    lastLoad.called =>
        /\ ~lastLoad.raised
        /\ lastLoad.read =>
              IF lastLoad.file.readable
              THEN lastLoad.ret = lastLoad.file.tbl /\ ~lastLoad.error
              ELSE lastLoad.ret = EmptyDF /\ lastLoad.error

C5_Witness ==
    /\ lastLoad.called /\ lastLoad.read
    /\ ~lastLoad.file.readable
    /\ lastLoad.error
    /\ sessHas /\ sessTbl = EmptyDF

\* C6: the arrow shown is "up" exactly when today's sum is strictly greater
\* than yesterday's, and the magnitude shown is the absolute difference.
C6_ArrowAndMagnitude ==
    pc = "done" =>
        /\ (shown.tiles.arrow = "up") <=> (locals.today_minutes > locals.yesterday_minutes)
        /\ shown.tiles.arrow \in {"up", "down"}
        /\ shown.tiles.delta >= 0
        /\ shown.tiles.delta \in {locals.today_minutes - locals.yesterday_minutes,
                                  locals.yesterday_minutes - locals.today_minutes}

C6_Witness ==
    /\ pc = "done"
    /\ locals.today_minutes = locals.yesterday_minutes
    /\ locals.today_minutes > 0
    /\ shown.tiles.arrow = "down"
    /\ shown.tiles.delta = 0

\* C7: each date-filtered result is the sum of its column over exactly the
\* rows whose parsed date is the target date; rows with a missing or
\* unparseable date add nothing.
C7_UndatedRowsExcluded ==
    /\ pc \in AfterDaily =>
          /\ locals.today_minutes = RawSum(data0.rows, "Paid", today)
          /\ locals.yesterday_minutes = RawSum(data0.rows, "Paid", today - 1)
    /\ pc \in AfterClientsToday =>
          locals.clients_today = RawSum(data0.rows, "Clients", today)
    /\ pc \in AfterClientsYesterday =>
          locals.client_yesterday = RawSum(data0.rows, "Clients", today - 1)

C7_Witness ==
    /\ pc = "done"
    /\ HasUndatedRow(data0.rows)
    /\ \E i \in 1..Len(data0.rows) : data0.rows[i].Date = BadStr
    /\ locals.today_minutes > 0
    /\ locals.client_yesterday = 0

\* C8: of the reloads run while the file's contents stay the same, every one
\* stores the table the first of them stored.
C8_ReloadIdempotent == reloads.n >= 2 => reloads.same

\* C9: the table held in the session is the table the last load stored, and
\* the calculators leave the table they are given as it was.
C9_TableChangedOnlyByReload ==
    /\ (sessHas /\ lastLoad.called) => sessTbl = lastLoad.ret
    /\ pc \in AfterMetrics => dataTbl = data0
    /\ pc = "done" => shown.view = data0

\* C10: the tiles and the table view of a finished run are those of one
\* table, the one the session held when the run read it at line 86, whatever
\* reloads ran during the run.
C10_RenderFromOneTable ==
    pc = "done" =>
        /\ shown.tiles = RenderOf(data0, today).tiles
        /\ shown.view = RenderOf(data0, today).view

C10_Witness ==
    /\ pc = "done"
    /\ ~aliased
    /\ lastLoad.by = "reload"
    /\ RenderOf(sessTbl, today).tiles # shown.tiles
    /\ RenderOf(sessTbl, today).view # shown.view

=============================================================================
